---- MODULE Spec2Model ----
(***************************************************************************)
(* Model of granulate_utils.logging.BatchingHandler                        *)
(* (src/granulate_utils/logging/__init__.py).                              *)
(*                                                                         *)
(* One producer thread runs emit() and the threads of Flushers run         *)
(* flush().  logging.Handler.handle calls emit() under the handler's lock, *)
(* but flush() never acquires that lock, so nothing excludes flush() from  *)
(* emit(): each statement of emit() and flush() that touches self._buffer  *)
(* is one atomic step (a single list operation of the interpreter) and the *)
(* steps of the two methods interleave freely.                             *)
(*                                                                         *)
(* Spec has one flushing thread, SpecRace two; SpecDictify calls           *)
(* dictify_record on records of every shape; SpecCgroup is                 *)
(* granulate_utils.linux.cgroups.cpu_cgroup.CpuCgroup, whose three methods *)
(* are each one step.                                                      *)
(***************************************************************************)
EXTENDS Integers, Sequences, FiniteSets, TLC

\* ------------------------------------------------------------------ bounds
\* BatchingHandler.capacity (line 16) is 100 * 1000; the model scales it down.
capacity == 2
\* number of emit() calls explored
MaxRecords == 4
\* number of flush() calls explored
MaxFlushCalls == 3

\* The thread that runs flush() in Spec.
Flushers == {1}

\* ------------------------------------------------------- record conversion
\* A logging.LogRecord as emit() receives it: the n-th record of the run.
\* message is the record's text (here its number), created is in seconds.
LogRecord(n) ==
    [message |-> n, levelname |-> "INFO", created |-> 1700000000 + n,
     name |-> "root", exc_info |-> "", exc_text |-> ""]

\* logging.Formatter.formatException: the traceback text of an exc_info.
formatException(exc_info) == "Traceback (most recent call last): " \o exc_info

\* datetime.utcfromtimestamp(created).isoformat() for whole seconds:
\* the fields of YYYY-MM-DDTHH:MM:SS in the proleptic Gregorian calendar.
isoformat(created) ==
    LET days == created \div 86400
        secs == created % 86400
        z    == days + 719468
        era  == z \div 146097
        doe  == z % 146097
        yoe  == (doe - doe \div 1460 + doe \div 36524 - doe \div 146096) \div 365
        doy  == doe - (365 * yoe + yoe \div 4 - yoe \div 100)
        mp   == (5 * doy + 2) \div 153
        d    == doy - (153 * mp + 2) \div 5 + 1
        m    == IF mp < 10 THEN mp + 3 ELSE mp - 9
        y    == yoe + era * 400 + (IF m <= 2 THEN 1 ELSE 0)
    IN  <<y, m, d, secs \div 3600, (secs % 3600) \div 60, secs % 60>>

\* Variant of _format_exception that returns the cached text whenever there
\* is one: record.exc_text or (formatException(...) if record.exc_info else "")
FormatExceptionCachedFirst(record) ==
    IF record.exc_text # "" THEN record.exc_text
    ELSE IF record.exc_info # "" THEN formatException(record.exc_info)
    ELSE ""

\* _format_exception: "" without exc_info, else exc_text or a fresh traceback.
\* (None and "" are both falsy; the model writes both as "".)
format_exception(record) ==
    IF record.exc_info # ""
    THEN IF record.exc_text # "" THEN record.exc_text
         ELSE formatException(record.exc_info)
    ELSE ""

dictify_record(record) ==
    [message     |-> record.message,
     level       |-> record.levelname,
     timestamp   |-> isoformat(record.created),
     logger_name |-> record.name,
     exception   |-> format_exception(record)]

\* ------------------------------------------------------- list operations
Min(a, b) == IF a < b THEN a ELSE b
Max(a, b) == IF a > b THEN a ELSE b

\* A slice bound as list slicing resolves it: negative counts from the end,
\* and the result is clipped to 0..len.
SliceIndex(i, len) == IF i < 0 THEN Max(len + i, 0) ELSE Min(i, len)

\* lst[:stop]
SlicePrefix(lst, stop) == SubSeq(lst, 1, SliceIndex(stop, Len(lst)))

\* lst[:stop] = []
DeletePrefix(lst, stop) == SubSeq(lst, SliceIndex(stop, Len(lst)) + 1, Len(lst))

\* the record numbers of a list of entries
Ids(lst) == [i \in DOMAIN lst |-> lst[i].message]
IdSet(lst) == {lst[i].message : i \in DOMAIN lst}

\* ------------------------------------------------------------------ state
VARIABLES
    buffer,        \* self._buffer
    pcEmit,        \* position of the producer inside emit()
    pcFlush,       \* position of each flusher inside flush()
    logs_count,    \* flush()'s local logs_count, per flusher
    logs,          \* the argument of the flusher's flush_logs call
    recorded,      \* number of emit() calls begun; the last record's number
    truncCalls,    \* number of on_truncated() calls
    overflowCalls, \* number of emit() calls whose append exceeded capacity
    truncated,     \* numbers of the entries dropped by emit()'s truncation
    flushCalls,    \* number of flush() calls begun
    flushLogsCalls,\* flush_logs calls made by the flusher's current flush()
    startBuf,      \* buffer when the flusher's current flush() read its length
    removed,       \* entries the flusher's current flush() removed
    quiet,         \* no emit() call was running or ran since the flusher's last flush() began
    overlapEver,   \* some emit() call has overlapped some flush() call
    delivered,     \* entries passed to flush_logs calls that returned, in order
    failed,        \* entries passed to a failed flush_logs and not delivered since
    flushRemoved,  \* numbers of the entries removed by flush() calls
    flushOverlapEver, \* some flush() call began while another was in progress
    control_files, \* the cgroup's control files: file name -> text
    writes,        \* the write_to_control_file calls of the last CpuCgroup call
    calls,         \* the last two CpuCgroup calls: operation, argument, result
    record,        \* a LogRecord handed to dictify_record
    item           \* what dictify_record returned for it

\* the state of the BatchingHandler and of the calls on it
handlerVars == <<buffer, pcEmit, pcFlush, logs_count, logs, recorded, truncCalls,
                 overflowCalls, truncated, flushCalls, flushLogsCalls, startBuf,
                 removed, quiet, overlapEver, delivered, failed, flushRemoved,
                 flushOverlapEver>>

\* the state of the CpuCgroup and of the calls on it
cgroupVars == <<control_files, writes, calls>>

\* the input and the output of a dictify_record call
recordVars == <<record, item>>

vars == <<handlerVars, cgroupVars, recordVars>>

emitVars == <<pcEmit, recorded, truncCalls, overflowCalls, truncated>>
flushVars == <<pcFlush, logs_count, logs, flushCalls, flushLogsCalls, startBuf,
               removed, delivered, failed, flushRemoved>>

\* A flush() call of f is in progress.
FlushActive(f) == pcFlush[f] \in {"slice", "call", "remove"}
AnyFlushActive == \E f \in DOMAIN pcFlush : FlushActive(f)

\* __init__ (lines 18-22): an empty buffer, nobody inside a method; the
\* threads of F will call flush().
HandlerInit(F) ==
    /\ buffer = <<>>
    /\ pcEmit = "idle"
    /\ pcFlush = [f \in F |-> "idle"]
    /\ logs_count = [f \in F |-> 0]
    /\ logs = [f \in F |-> <<>>]
    /\ recorded = 0
    /\ truncCalls = 0
    /\ overflowCalls = 0
    /\ truncated = {}
    /\ flushCalls = 0
    /\ flushLogsCalls = [f \in F |-> 0]
    /\ startBuf = [f \in F |-> <<>>]
    /\ removed = [f \in F |-> <<>>]
    /\ quiet = [f \in F |-> TRUE]
    /\ overlapEver = FALSE
    /\ delivered = <<>>
    /\ failed = {}
    /\ flushRemoved = {}
    /\ flushOverlapEver = FALSE

\* No CpuCgroup in use.
CgroupUnused ==
    /\ control_files = <<>>
    /\ writes = <<>>
    /\ calls = <<>>

\* No dictify_record call outside emit().
RecordUnused ==
    /\ record = [message |-> "", levelname |-> "NOTSET", created |-> 0,
                 name |-> "", exc_info |-> "", exc_text |-> ""]
    /\ item = <<>>

Init == HandlerInit(Flushers) /\ CgroupUnused /\ RecordUnused

\* Bookkeeping of every emit() step: it overlaps the flush() calls in progress.
EmitOverlap ==
    /\ quiet' = [f \in DOMAIN quiet |-> FALSE]
    /\ overlapEver' = (overlapEver \/ AnyFlushActive)

\* ------------------------------------------------------------------ emit
\* lines 25-26: item = self.dictify_record(record); self._buffer.append(item)
EmitAppend ==
    /\ pcEmit = "idle"
    /\ recorded < MaxRecords
    /\ recorded' = recorded + 1
    /\ buffer' = Append(buffer, dictify_record(LogRecord(recorded + 1)))
    /\ overflowCalls' = overflowCalls + (IF Len(buffer') > capacity THEN 1 ELSE 0)
    /\ pcEmit' = "check"
    /\ EmitOverlap
    /\ UNCHANGED <<truncCalls, truncated>>
    /\ UNCHANGED flushVars
    /\ UNCHANGED <<flushOverlapEver, cgroupVars, recordVars>>

\* Variant of EmitCheck with the comparison off by one (> capacity + 1).
EmitCheckOffByOne ==
    /\ pcEmit = "check"
    /\ pcEmit' = IF Len(buffer) > capacity + 1 THEN "hook" ELSE "idle"
    /\ EmitOverlap
    /\ UNCHANGED <<buffer, recorded, truncCalls, overflowCalls, truncated>>
    /\ UNCHANGED flushVars
    /\ UNCHANGED <<flushOverlapEver, cgroupVars, recordVars>>

\* Variant of EmitCheck that compares with >= instead of >.
EmitCheckAtCapacity ==
    /\ pcEmit = "check"
    /\ pcEmit' = IF Len(buffer) >= capacity THEN "hook" ELSE "idle"
    /\ EmitOverlap
    /\ UNCHANGED <<buffer, recorded, truncCalls, overflowCalls, truncated>>
    /\ UNCHANGED flushVars
    /\ UNCHANGED <<flushOverlapEver, cgroupVars, recordVars>>

\* line 28: if len(self._buffer) > self.capacity
EmitCheck ==
    /\ pcEmit = "check"
    /\ pcEmit' = IF Len(buffer) > capacity THEN "hook" ELSE "idle"
    /\ EmitOverlap
    /\ UNCHANGED <<buffer, recorded, truncCalls, overflowCalls, truncated>>
    /\ UNCHANGED flushVars
    /\ UNCHANGED <<flushOverlapEver, cgroupVars, recordVars>>

\* line 29: self.on_truncated()   (lines 32-37: the default does nothing)
EmitOnTruncated ==
    /\ pcEmit = "hook"
    /\ truncCalls' = truncCalls + 1
    /\ pcEmit' = "truncate"
    /\ EmitOverlap
    /\ UNCHANGED <<buffer, recorded, overflowCalls, truncated>>
    /\ UNCHANGED flushVars
    /\ UNCHANGED <<flushOverlapEver, cgroupVars, recordVars>>

\* Variant of EmitTruncate that keeps the oldest entries:
\* self._buffer[self.capacity:] = []
EmitTruncateKeepsOldest ==
    /\ pcEmit = "truncate"
    /\ buffer' = SlicePrefix(buffer, capacity)
    /\ truncated' = truncated \cup (IdSet(buffer) \ IdSet(buffer'))
    /\ pcEmit' = "idle"
    /\ EmitOverlap
    /\ UNCHANGED <<recorded, truncCalls, overflowCalls>>
    /\ UNCHANGED flushVars
    /\ UNCHANGED <<flushOverlapEver, cgroupVars, recordVars>>

\* line 30: self._buffer[: -self.capacity] = []
EmitTruncate ==
    /\ pcEmit = "truncate"
    /\ buffer' = DeletePrefix(buffer, -capacity)
    /\ truncated' = truncated \cup (IdSet(buffer) \ IdSet(buffer'))
    /\ pcEmit' = "idle"
    /\ EmitOverlap
    /\ UNCHANGED <<recorded, truncCalls, overflowCalls>>
    /\ UNCHANGED flushVars
    /\ UNCHANGED <<flushOverlapEver, cgroupVars, recordVars>>

\* ------------------------------------------------------------------ flush
\* line 41: logs_count = len(self._buffer)
FlushSnapshot(f) ==
    /\ pcFlush[f] \in {"idle", "done", "raised"}
    /\ flushCalls < MaxFlushCalls
    /\ flushCalls' = flushCalls + 1
    /\ logs_count' = [logs_count EXCEPT ![f] = Len(buffer)]
    /\ logs' = [logs EXCEPT ![f] = <<>>]
    /\ startBuf' = [startBuf EXCEPT ![f] = buffer]
    /\ removed' = [removed EXCEPT ![f] = <<>>]
    /\ flushLogsCalls' = [flushLogsCalls EXCEPT ![f] = 0]
    /\ quiet' = [quiet EXCEPT ![f] = (pcEmit = "idle")]
    /\ overlapEver' = (overlapEver \/ pcEmit # "idle")
    /\ flushOverlapEver' =
         (flushOverlapEver \/ \E g \in DOMAIN pcFlush \ {f} : FlushActive(g))
    /\ pcFlush' = [pcFlush EXCEPT ![f] = "slice"]
    /\ UNCHANGED <<buffer, delivered, failed, flushRemoved>>
    /\ UNCHANGED emitVars
    /\ UNCHANGED <<cgroupVars, recordVars>>

\* Variant of FlushSlice that passes the whole buffer: self._buffer[:]
FlushSliceWhole(f) ==
    /\ pcFlush[f] = "slice"
    /\ logs' = [logs EXCEPT ![f] = buffer]
    /\ pcFlush' = [pcFlush EXCEPT ![f] = "call"]
    /\ UNCHANGED <<buffer, logs_count, flushCalls, flushLogsCalls, startBuf,
                   removed, quiet, overlapEver, delivered, failed, flushRemoved>>
    /\ UNCHANGED <<emitVars, flushOverlapEver>>
    /\ UNCHANGED <<cgroupVars, recordVars>>

\* Variant of FlushSlice that leaves out the oldest entry:
\* self._buffer[1:logs_count]
FlushSliceSkipsOldest(f) ==
    /\ pcFlush[f] = "slice"
    /\ logs' = [logs EXCEPT ![f] = SubSeq(buffer, 2, SliceIndex(logs_count[f], Len(buffer)))]
    /\ pcFlush' = [pcFlush EXCEPT ![f] = "call"]
    /\ UNCHANGED <<buffer, logs_count, flushCalls, flushLogsCalls, startBuf,
                   removed, quiet, overlapEver, delivered, failed, flushRemoved>>
    /\ UNCHANGED <<emitVars, flushOverlapEver>>
    /\ UNCHANGED <<cgroupVars, recordVars>>

\* line 42, the argument: self._buffer[:logs_count]
FlushSlice(f) ==
    /\ pcFlush[f] = "slice"
    /\ logs' = [logs EXCEPT ![f] = SlicePrefix(buffer, logs_count[f])]
    /\ pcFlush' = [pcFlush EXCEPT ![f] = "call"]
    /\ UNCHANGED <<buffer, logs_count, flushCalls, flushLogsCalls, startBuf,
                   removed, quiet, overlapEver, delivered, failed, flushRemoved>>
    /\ UNCHANGED <<emitVars, flushOverlapEver>>
    /\ UNCHANGED <<cgroupVars, recordVars>>

\* line 42, the call: self.flush_logs(...) returns
FlushLogsReturn(f) ==
    /\ pcFlush[f] = "call"
    /\ flushLogsCalls' = [flushLogsCalls EXCEPT ![f] = @ + 1]
    /\ delivered' = delivered \o logs[f]
    /\ failed' = failed \ IdSet(logs[f])
    /\ pcFlush' = [pcFlush EXCEPT ![f] = "remove"]
    /\ UNCHANGED <<buffer, logs_count, logs, flushCalls, startBuf, removed,
                   quiet, overlapEver, flushRemoved>>
    /\ UNCHANGED <<emitVars, flushOverlapEver>>
    /\ UNCHANGED <<cgroupVars, recordVars>>

\* Variant of FlushLogsRaise in which the removal of line 44 runs although
\* flush_logs raised (as it would in a finally clause).
FlushLogsRaiseRemoves(f) ==
    /\ pcFlush[f] = "call"
    /\ flushLogsCalls' = [flushLogsCalls EXCEPT ![f] = @ + 1]
    /\ failed' = failed \cup IdSet(logs[f])
    /\ buffer' = DeletePrefix(buffer, logs_count[f])
    /\ removed' = [removed EXCEPT ![f] = SlicePrefix(buffer, logs_count[f])]
    /\ flushRemoved' = flushRemoved \cup IdSet(SlicePrefix(buffer, logs_count[f]))
    /\ pcFlush' = [pcFlush EXCEPT ![f] = "raised"]
    /\ UNCHANGED <<logs_count, logs, flushCalls, startBuf, quiet, overlapEver,
                   delivered>>
    /\ UNCHANGED <<emitVars, flushOverlapEver>>
    /\ UNCHANGED <<cgroupVars, recordVars>>

\* line 42, the call: self.flush_logs(...) raises (as the base class does,
\* lines 46-47); flush() has no handler, so the exception leaves flush().
FlushLogsRaise(f) ==
    /\ pcFlush[f] = "call"
    /\ flushLogsCalls' = [flushLogsCalls EXCEPT ![f] = @ + 1]
    /\ failed' = failed \cup IdSet(logs[f])
    /\ pcFlush' = [pcFlush EXCEPT ![f] = "raised"]
    /\ UNCHANGED <<buffer, logs_count, logs, flushCalls, startBuf, removed,
                   quiet, overlapEver, delivered, flushRemoved>>
    /\ UNCHANGED <<emitVars, flushOverlapEver>>
    /\ UNCHANGED <<cgroupVars, recordVars>>

\* Variant of FlushRemove that removes nothing (line 44 left out).
FlushRemoveKeeps(f) ==
    /\ pcFlush[f] = "remove"
    /\ pcFlush' = [pcFlush EXCEPT ![f] = "done"]
    /\ UNCHANGED <<buffer, removed, flushRemoved>>
    /\ UNCHANGED <<logs_count, logs, flushCalls, flushLogsCalls, startBuf,
                   quiet, overlapEver, delivered, failed>>
    /\ UNCHANGED <<emitVars, flushOverlapEver>>
    /\ UNCHANGED <<cgroupVars, recordVars>>

\* line 44: self._buffer[:logs_count] = []
FlushRemove(f) ==
    /\ pcFlush[f] = "remove"
    /\ buffer' = DeletePrefix(buffer, logs_count[f])
    /\ removed' = [removed EXCEPT ![f] = SlicePrefix(buffer, logs_count[f])]
    /\ flushRemoved' = flushRemoved \cup IdSet(SlicePrefix(buffer, logs_count[f]))
    /\ pcFlush' = [pcFlush EXCEPT ![f] = "done"]
    /\ UNCHANGED <<logs_count, logs, flushCalls, flushLogsCalls, startBuf,
                   quiet, overlapEver, delivered, failed>>
    /\ UNCHANGED <<emitVars, flushOverlapEver>>
    /\ UNCHANGED <<cgroupVars, recordVars>>

\* ---------------------------------------------------------- specification
Flush(f) ==
    \/ FlushSnapshot(f)
    \/ FlushSlice(f)
    \/ FlushLogsReturn(f)
    \/ FlushLogsRaise(f)
    \/ FlushRemove(f)

Next ==
    \/ EmitAppend
    \/ EmitCheck
    \/ EmitOnTruncated
    \/ EmitTruncate
    \/ \E f \in Flushers : FlushSnapshot(f)
    \/ \E f \in Flushers : FlushSlice(f)
    \/ \E f \in Flushers : FlushLogsReturn(f)
    \/ \E f \in Flushers : FlushLogsRaise(f)
    \/ \E f \in Flushers : FlushRemove(f)

Spec == Init /\ [][Next]_vars

\* Two threads that call flush(), with nothing to keep their calls apart.
RacingFlushers == {1, 2}

InitRace == HandlerInit(RacingFlushers) /\ CgroupUnused /\ RecordUnused

NextRace ==
    \/ EmitAppend
    \/ EmitCheck
    \/ EmitOnTruncated
    \/ EmitTruncate
    \/ \E f \in RacingFlushers : FlushSnapshot(f)
    \/ \E f \in RacingFlushers : FlushSlice(f)
    \/ \E f \in RacingFlushers : FlushLogsReturn(f)
    \/ \E f \in RacingFlushers : FlushLogsRaise(f)
    \/ \E f \in RacingFlushers : FlushRemove(f)

SpecRace == InitRace /\ [][NextRace]_vars

\* -------------------------------------------------- dictify_record alone
\* The LogRecords handed to dictify_record: exc_info "" is no exception info
\* (None), exc_text "" is no cached traceback text.
RecordInputs ==
    [message  : {"started", "failed"},
     levelname: {"INFO", "ERROR"},
     created  : {0, 86399, 1700000000},
     name     : {"root", "app.db"},
     exc_info : {"", "ValueError: bad value", "KeyError: key"},
     exc_text : {"", "Traceback (cached): ValueError"}]

\* lines 49-58: a call of dictify_record(rec) while no emit() is in progress
DictifyRecord(rec) ==
    /\ pcEmit = "idle"
    /\ record' = rec
    /\ item' = dictify_record(rec)
    /\ UNCHANGED <<handlerVars, cgroupVars>>

NextDictify ==
    \/ EmitAppend
    \/ EmitCheck
    \/ EmitOnTruncated
    \/ EmitTruncate
    \/ \E rec \in RecordInputs : DictifyRecord(rec)

SpecDictify == Init /\ [][NextDictify]_vars

\* ---------------------------------------------------------------- CpuCgroup
\* (src/granulate_utils/linux/cgroups/cpu_cgroup.py)
\* A text is a sequence of characters.  A float is a pair <<n, d>>, d > 0,
\* standing for n / d; the model uses values whose products with the period
\* are exact in binary floating point.
cfs_period_us == "cpu.cfs_period_us"
cfs_quota_us == "cpu.cfs_quota_us"

DigitChars == <<"0", "1", "2", "3", "4", "5", "6", "7", "8", "9">>

RECURSIVE NatText(_)
NatText(n) ==
    IF n < 10 THEN <<DigitChars[n + 1]>>
    ELSE NatText(n \div 10) \o <<DigitChars[(n % 10) + 1]>>

\* str(n) for an int n
str(n) == IF n < 0 THEN <<"-">> \o NatText(-n) ELSE NatText(n)

IsSpace(c) == c \in {" ", "\n", "\t"}

RECURSIVE StripLeft(_)
StripLeft(text) ==
    IF text # <<>> /\ IsSpace(Head(text)) THEN StripLeft(Tail(text)) ELSE text

RECURSIVE StripRight(_)
StripRight(text) ==
    IF text # <<>> /\ IsSpace(text[Len(text)])
    THEN StripRight(SubSeq(text, 1, Len(text) - 1)) ELSE text

DigitValue(c) == CHOOSE v \in 0..9 : DigitChars[v + 1] = c

RECURSIVE DigitsValue(_)
DigitsValue(digits) ==
    IF digits = <<>> THEN 0
    ELSE 10 * DigitsValue(SubSeq(digits, 1, Len(digits) - 1))
         + DigitValue(digits[Len(digits)])

\* int(text) for a text holding a decimal integer: surrounding whitespace is
\* ignored, a leading sign is honoured.
IntOfText(text) ==
    LET t == StripRight(StripLeft(text))
    IN  IF Head(t) = "-" THEN -DigitsValue(Tail(t))
        ELSE IF Head(t) = "+" THEN DigitsValue(Tail(t))
        ELSE DigitsValue(t)

\* period * cores: an int times a float
FloatMul(k, x) == <<k * x[1], x[2]>>

\* quota / period: true division of two ints
TrueDiv(a, b) == IF b < 0 THEN <<-a, -b>> ELSE <<a, b>>

\* int(x) for a float x: truncation toward zero
IntOfFloat(x) == IF x[1] >= 0 THEN x[1] \div x[2] ELSE -((-x[1]) \div x[2])

\* BaseCgroup.read_from_control_file / write_to_control_file: the control
\* files as a store of texts by file name.
read_from_control_file(files, name) == files[name]
write_to_control_file(files, name, text) == [files EXCEPT ![name] = text]

\* the calls kept in the variable calls: the last two
LastTwo(cs) == IF Len(cs) > 2 THEN SubSeq(cs, Len(cs) - 1, Len(cs)) ELSE cs

NoFloat == <<0, 1>>

\* the cores values the model passes to set_cpu_limit_cores
CoresInputs == {<<n, d>> : n \in {1, 2, 3, 5}, d \in {1, 2, 8, 16}}

\* the texts cpu.cfs_period_us may hold, as written and as the kernel shows them
PeriodTexts == UNION {{str(p), str(p) \o <<"\n">>} : p \in {100, 1000, 100000}}

\* the texts cpu.cfs_quota_us may hold before the first call
QuotaTexts == {<<"-", "1", "\n">>, <<"5", "0", "0", "0", "0", "\n">>}

InitCgroup ==
    /\ HandlerInit(Flushers)
    /\ RecordUnused
    /\ \E pt \in PeriodTexts, qt \in QuotaTexts :
          control_files = [name \in {cfs_period_us, cfs_quota_us} |->
                              IF name = cfs_period_us THEN pt ELSE qt]
    /\ writes = <<>>
    /\ calls = <<>>

\* Variant of set_cpu_limit_cores that truncates cores before multiplying:
\* str(period * int(cores))
SetCpuLimitCoresTruncatesCores(cores) ==
    LET period == IntOfText(read_from_control_file(control_files, cfs_period_us))
        text   == str(period * IntOfFloat(cores))
    IN  /\ control_files' = write_to_control_file(control_files, cfs_quota_us, text)
        /\ writes' = <<<<cfs_quota_us, text>>>>
        /\ calls' = LastTwo(Append(calls,
                        [op |-> "set", cores |-> cores, result |-> NoFloat]))
        /\ UNCHANGED <<handlerVars, recordVars>>

\* lines 14-16: set_cpu_limit_cores
SetCpuLimitCores(cores) ==
    LET period == IntOfText(read_from_control_file(control_files, cfs_period_us))
        text   == str(IntOfFloat(FloatMul(period, cores)))
    IN  /\ control_files' = write_to_control_file(control_files, cfs_quota_us, text)
        /\ writes' = <<<<cfs_quota_us, text>>>>
        /\ calls' = LastTwo(Append(calls,
                        [op |-> "set", cores |-> cores, result |-> NoFloat]))
        /\ UNCHANGED <<handlerVars, recordVars>>

\* Variant of get_cpu_limit_cores that divides with // instead of /.
GetCpuLimitCoresFloorDiv ==
    LET period == IntOfText(read_from_control_file(control_files, cfs_period_us))
        quota  == IntOfText(read_from_control_file(control_files, cfs_quota_us))
        floor  == IF quota >= 0 THEN quota \div period
                  ELSE -((-quota + period - 1) \div period)
    IN  /\ calls' = LastTwo(Append(calls,
                        [op |-> "get", cores |-> NoFloat, result |-> <<floor, 1>>]))
        /\ writes' = <<>>
        /\ UNCHANGED <<control_files, handlerVars, recordVars>>

\* lines 18-20: get_cpu_limit_cores
GetCpuLimitCores ==
    LET period == IntOfText(read_from_control_file(control_files, cfs_period_us))
        quota  == IntOfText(read_from_control_file(control_files, cfs_quota_us))
    IN  /\ calls' = LastTwo(Append(calls,
                        [op |-> "get", cores |-> NoFloat,
                         result |-> TrueDiv(quota, period)]))
        /\ writes' = <<>>
        /\ UNCHANGED <<control_files, handlerVars, recordVars>>

\* lines 22-23: reset_cpu_limit
ResetCpuLimit ==
    /\ control_files' = write_to_control_file(control_files, cfs_quota_us, <<"-", "1">>)
    /\ writes' = <<<<cfs_quota_us, <<"-", "1">>>>>>
    /\ calls' = LastTwo(Append(calls,
                    [op |-> "reset", cores |-> NoFloat, result |-> NoFloat]))
    /\ UNCHANGED <<handlerVars, recordVars>>

NextCgroup ==
    \/ \E cores \in CoresInputs : SetCpuLimitCores(cores)
    \/ GetCpuLimitCores
    \/ ResetCpuLimit

SpecCgroup == InitCgroup /\ [][NextCgroup]_vars

\* ------------------------------------------------------------ properties
\* the numbers 1..n in order
Upto(n) == [i \in 1..n |-> i]

NoDuplicates(lst) == \A i, j \in DOMAIN lst : lst[i] = lst[j] => i = j

\* C1: whenever no emit() call is in progress (each call begun has run to its
\* end), the buffer holds at most capacity entries, whatever emit() calls,
\* successful flush() calls and failed flush() calls came before.
C1_BufferBound == pcEmit = "idle" => Len(buffer) <= capacity

\* C1 witness: emit() has overflowed and truncated, two flush() calls have
\* failed and none has delivered anything, and the buffer is exactly full.
C1_Witness ==
    /\ pcEmit = "idle"
    /\ recorded > capacity
    /\ truncCalls >= 1
    /\ flushCalls >= 2
    /\ pcFlush[1] = "raised"
    /\ delivered = <<>>
    /\ Len(buffer) = capacity

\* C2: an entry appended after a flush() read the buffer's length is never
\* removed by that flush(): everything the flush() removed was in the buffer
\* when the length was read.
C2_AppendedNeverRemoved ==
    \A f \in DOMAIN pcFlush : IdSet(removed[f]) \subseteq IdSet(startBuf[f])

\* C3: the batch a flush() passes to flush_logs holds only entries that were
\* in the buffer when the flush() read the buffer's length.
C3_BatchWithinSnapshot ==
    \A f \in DOMAIN pcFlush : IdSet(logs[f]) \subseteq IdSet(startBuf[f])

\* C4: a flush() that has returned removed no entry that was not in the batch
\* it passed to flush_logs and left none of that batch in the buffer, and
\* every recorded entry is still buffered, was dropped by
\* truncation, or was delivered by a flush_logs call that returned.
C4_NoLossThroughFlush ==
    /\ \A f \in DOMAIN pcFlush :
        pcFlush[f] = "done" =>
            /\ IdSet(removed[f]) \subseteq IdSet(logs[f])
            /\ IdSet(logs[f]) \cap IdSet(buffer) = {}
    /\ \A n \in 1..recorded :
        n \in IdSet(buffer) \cup truncated \cup IdSet(delivered)

\* C5: when flush_logs raised and no emit() ran during the flush() call, the
\* exception has left flush() and the buffer is what it was when the call began.
C5_FailedFlushKeepsBuffer ==
    \A f \in DOMAIN pcFlush :
        (pcFlush[f] = "raised" /\ quiet[f]) => buffer = startBuf[f]

\* C5 witness: a flush() of a non-empty buffer has failed with no emit() since.
C5_Witness ==
    /\ pcFlush[1] = "raised"
    /\ quiet[1]
    /\ Len(startBuf[1]) = capacity
    /\ logs[1] = startBuf[1]
    /\ buffer = startBuf[1]

\* C6: after N emit() calls and no flush() call, the buffer holds the last
\* min(N, capacity) records, oldest first.
C6_RetainedLast ==
    (flushCalls = 0 /\ pcEmit = "idle") =>
        /\ Len(buffer) = Min(recorded, capacity)
        /\ Ids(buffer) = [i \in 1..Min(recorded, capacity) |->
                             recorded - Min(recorded, capacity) + i]

\* C6 witness: more than capacity + 1 records, no flush(); the buffer holds
\* the newest capacity of them.
C6_Witness ==
    /\ flushCalls = 0
    /\ pcEmit = "idle"
    /\ recorded > capacity + 1
    /\ Ids(buffer) = [i \in 1..capacity |-> recorded - capacity + i]

\* C7: on_truncated() is never called for an emit() whose append did not
\* overflow; with no flush(), it has been called once for each emit() whose
\* append overflowed, N - capacity times after N > capacity calls; and no step
\* of flush() calls it.
C7_HookCountInv ==
    /\ truncCalls <= overflowCalls
    /\ (flushCalls = 0 /\ pcEmit = "idle") =>
        /\ truncCalls = overflowCalls
        /\ truncCalls = Max(recorded - capacity, 0)

C7_HookCount ==
    /\ []C7_HookCountInv
    /\ [][(\E f \in DOMAIN pcFlush : Flush(f)) => truncCalls' = truncCalls]_vars

\* C7 witness: N > capacity + 1 calls, no flush(), N - capacity hook calls.
C7_Witness ==
    /\ flushCalls = 0
    /\ pcEmit = "idle"
    /\ recorded > capacity + 1
    /\ truncCalls = recorded - capacity

\* C8: a flush() that returned with no emit() during it called flush_logs
\* once, with the whole buffer as it was at the start, oldest first, and left
\* the buffer empty.
C8_SequentialFlush ==
    \A f \in DOMAIN pcFlush :
        (pcFlush[f] = "done" /\ quiet[f]) =>
            /\ flushLogsCalls[f] = 1
            /\ logs[f] = startBuf[f]
            /\ \A i, j \in DOMAIN logs[f] :
                   i < j => logs[f][i].message < logs[f][j].message
            /\ buffer = <<>>

\* C8 witness: a full buffer was flushed with no emit() during the call.
C8_Witness ==
    /\ pcFlush[1] = "done"
    /\ quiet[1]
    /\ Len(startBuf[1]) = capacity
    /\ logs[1] = startBuf[1]
    /\ buffer = <<>>

\* A run so far in which no emit() call overlapped a flush() call and no
\* append exceeded capacity.
SequentialNoOverflow == ~overlapEver /\ overflowCalls = 0

\* C9: in a run of non-overlapping calls without overflow, the batches of the
\* flush_logs calls that returned, followed by the buffer, are the records in
\* call order; after a flush_logs that returned no entry handed to a failed
\* flush_logs is undelivered; no entry is delivered twice.
C9_RetryNoLoss ==
    SequentialNoOverflow =>
        /\ (pcEmit = "idle" /\ ~AnyFlushActive) =>
               Ids(delivered \o buffer) = Upto(recorded)
        /\ \A f \in DOMAIN pcFlush :
               pcFlush[f] \in {"remove", "done"} => failed = {}
        /\ NoDuplicates(Ids(delivered))

\* C9 witness: a flush() failed, the next one delivered the same entries, a
\* record came after and is still buffered.
C9_Witness ==
    /\ SequentialNoOverflow
    /\ pcEmit = "idle"
    /\ pcFlush[1] = "done"
    /\ flushCalls >= 2
    /\ Len(delivered) = capacity
    /\ failed = {}
    /\ Len(buffer) = 1
    /\ Ids(delivered \o buffer) = Upto(recorded)

\* C10: emit() and flush() exclude each other: no emit() call is in progress
\* while a flush() is between reading the length and removing the prefix.
C10_MutualExclusion ==
    \A f \in DOMAIN pcFlush : ~(pcEmit # "idle" /\ FlushActive(f))

\* C11: a flush() that found the buffer empty passes no entry to flush_logs
\* (it calls it once, with an empty list) and removes nothing; with no emit()
\* since it began the buffer is still empty once it has ended, whether
\* flush_logs returned or raised; and no step of such a flush() calls
\* on_truncated().
C11_EmptyFlushInv ==
    \A f \in DOMAIN pcFlush :
        startBuf[f] = <<>> =>
            /\ logs[f] = <<>>
            /\ removed[f] = <<>>
            /\ pcFlush[f] \in {"done", "raised"} => flushLogsCalls[f] = 1
            /\ (pcFlush[f] \in {"done", "raised"} /\ quiet[f]) => buffer = <<>>

C11_EmptyFlushNoOp ==
    /\ []C11_EmptyFlushInv
    /\ [][\A f \in DOMAIN pcFlush :
            (Flush(f) /\ startBuf'[f] = <<>>) => truncCalls' = truncCalls]_vars

\* C11 witness: records were delivered, then a flush() of the emptied buffer
\* ran to its end with no emit() meanwhile.
C11_Witness ==
    /\ pcFlush[1] = "done"
    /\ quiet[1]
    /\ startBuf[1] = <<>>
    /\ logs[1] = <<>>
    /\ flushLogsCalls[1] = 1
    /\ Len(delivered) = capacity
    /\ buffer = <<>>

\* the last entry of the buffer is the record of the emit() call in progress
NewestLast == buffer # <<>> /\ buffer[Len(buffer)].message = recorded

\* C14: in an emit() that overflows, on_truncated() runs after the append and
\* before any removal: when it is about to run and when it has returned the
\* buffer holds more than capacity entries, the newest last; the truncation
\* that follows leaves exactly capacity entries, the newest last.
C14_HookBeforeRemoval ==
    /\ [](pcEmit \in {"hook", "truncate"} =>
            (Len(buffer) > capacity /\ NewestLast))
    /\ [][(pcEmit = "truncate" /\ pcEmit' = "idle") =>
            (Len(buffer') = capacity /\ NewestLast')]_vars

\* lst is what is left of full after a prefix of it is removed
IsSuffix(lst, full) ==
    /\ Len(lst) <= Len(full)
    /\ lst = SubSeq(full, Len(full) - Len(lst) + 1, Len(full))

\* C15: the buffer is always a contiguous suffix of the records emitted so
\* far (no duplicate, no reordering); it changes only by emit() appending one
\* entry at the tail, or by losing a prefix in emit()'s truncation or in the
\* removal step of a flush() whose flush_logs returned.
C15_SuffixInv == Ids(buffer) = [i \in 1..Len(buffer) |-> recorded - Len(buffer) + i]

C15_EntryStateMachine ==
    /\ []C15_SuffixInv
    /\ [][buffer' # buffer =>
            \/ /\ pcEmit = "idle" /\ pcEmit' = "check"
               /\ Len(buffer') = Len(buffer) + 1
               /\ SubSeq(buffer', 1, Len(buffer)) = buffer
            \/ /\ IsSuffix(buffer', buffer)
               /\ \/ pcEmit = "truncate" /\ pcEmit' = "idle"
                  \/ \E f \in DOMAIN pcFlush :
                        /\ pcFlush[f] = "remove" /\ pcFlush'[f] = "done"
                        /\ logs[f] \in {delivered, SubSeq(delivered,
                              Len(delivered) - Len(logs[f]) + 1, Len(delivered))}]_vars

\* C15 witness: entries have left by truncation and by a flush() removal that
\* ran while an emit() was in progress, and the buffer is a non-empty suffix.
C15_Witness ==
    /\ truncated # {}
    /\ flushRemoved # {}
    /\ overlapEver
    /\ recorded = MaxRecords
    /\ Len(buffer) = 1
    /\ C15_SuffixInv

\* some entry was passed to two flush_logs calls that returned
DeliveredTwice == ~NoDuplicates(Ids(delivered))

\* some entry was removed by a flush() and never passed to a flush_logs call
\* that returned
RemovedUndelivered == \E n \in flushRemoved : n \notin IdSet(delivered)

\* C16: nothing protects flush() calls from each other.  Without overflow,
\* double delivery and removal without delivery happen only in runs where a
\* flush() read the length while another flush() was between its own length
\* snapshot and its removal; C16_Witness is such a run, reached by TLC.
C16_RacingFlushes ==
    (overflowCalls = 0 /\ ~flushOverlapEver) =>
        (~DeliveredTwice /\ ~RemovedUndelivered)

\* C16 witness: two flush() calls read the length of the same full buffer,
\* both delivered it and both returned; no emit() overflowed, so the one
\* record that came later was appended after the first removal, and the
\* second removal took it although it was never delivered.
C16_Witness ==
    /\ flushOverlapEver
    /\ overflowCalls = 0
    /\ flushCalls = 2
    /\ \A f \in DOMAIN pcFlush :
          /\ pcFlush[f] = "done"
          /\ Len(startBuf[f]) = capacity
          /\ logs[f] = startBuf[f]
    /\ delivered = logs[1] \o logs[2]
    /\ DeliveredTwice
    /\ recorded = capacity + 1
    /\ recorded \in flushRemoved
    /\ recorded \notin IdSet(delivered)
    /\ RemovedUndelivered

\* the CpuCgroup call made last
LastCall == calls[Len(calls)]

\* the period as an integer
PeriodValue == IntOfText(control_files[cfs_period_us])

\* text is the decimal writing of a natural number, without sign or padding
IsDecimal(text) ==
    /\ text # <<>>
    /\ \A i \in DOMAIN text : \E v \in 0..9 : DigitChars[v + 1] = text[i]
    /\ Len(text) > 1 => text[1] # "0"

\* two floats are the same number
FloatEq(x, y) == x[1] * y[2] = y[1] * x[2]

\* C12: set_cpu_limit_cores(cores), cores > 0 and the period a positive
\* integer, writes once, to cpu.cfs_quota_us, the decimal text of
\* floor(period * cores) (period "100000" and cores 2.0 give "200000"), and
\* cpu.cfs_period_us is never written.
C12_QuotaWriteInv ==
    (calls # <<>> /\ LastCall.op = "set") =>
        LET c == LastCall.cores
        IN  /\ Len(writes) = 1
            /\ writes[1][1] = cfs_quota_us
            /\ IsDecimal(writes[1][2])
            /\ IntOfText(writes[1][2]) = (PeriodValue * c[1]) \div c[2]
            /\ control_files[cfs_quota_us] = writes[1][2]
            /\ (PeriodValue = 100000 /\ c = <<2, 1>>) =>
                   writes[1][2] = <<"2", "0", "0", "0", "0", "0">>

C12_QuotaWrite ==
    /\ []C12_QuotaWriteInv
    /\ [][\A cores \in CoresInputs : SetCpuLimitCores(cores) =>
            control_files'[cfs_period_us] = control_files[cfs_period_us]]_vars

\* C12 witness: period 1000 and cores 1/16: 62.5 is written as "62".
C12_Witness ==
    /\ calls # <<>>
    /\ LastCall.op = "set"
    /\ LastCall.cores = <<1, 16>>
    /\ PeriodValue = 1000
    /\ writes = <<<<cfs_quota_us, <<"6", "2">>>>>>

\* C13: get_cpu_limit_cores() right after set_cpu_limit_cores(c) returns c
\* when period * c is an integer; reset_cpu_limit() writes exactly "-1" to
\* cpu.cfs_quota_us whatever it held, and get_cpu_limit_cores() then returns
\* -1 / period, a negative value; get and reset never write cpu.cfs_period_us.
C13_RoundTripInv ==
    /\ (Len(calls) = 2 /\ calls[1].op = "set" /\ calls[2].op = "get"
          /\ (PeriodValue * calls[1].cores[1]) % calls[1].cores[2] = 0) =>
            FloatEq(calls[2].result, calls[1].cores)
    /\ (calls # <<>> /\ LastCall.op = "reset") =>
            /\ writes = <<<<cfs_quota_us, <<"-", "1">>>>>>
            /\ control_files[cfs_quota_us] = <<"-", "1">>
    /\ (Len(calls) = 2 /\ calls[1].op = "reset" /\ calls[2].op = "get") =>
            /\ FloatEq(calls[2].result, <<-1, PeriodValue>>)
            /\ calls[2].result[1] < 0 /\ calls[2].result[2] > 0
    /\ (calls # <<>> /\ LastCall.op = "get") => writes = <<>>

C13_RoundTripAndReset ==
    /\ []C13_RoundTripInv
    /\ [][(GetCpuLimitCores \/ ResetCpuLimit) =>
            control_files'[cfs_period_us] = control_files[cfs_period_us]]_vars

\* C13 witness: period 1000, set_cpu_limit_cores(3/8) wrote "375" and
\* get_cpu_limit_cores() returned 375 / 1000.
C13_Witness ==
    /\ Len(calls) = 2
    /\ calls[1].op = "set" /\ calls[1].cores = <<3, 8>>
    /\ calls[2].op = "get" /\ calls[2].result = <<375, 1000>>
    /\ PeriodValue = 1000
    /\ control_files[cfs_quota_us] = <<"3", "7", "5">>

\* C17: dictify_record returns a mapping with exactly the keys message,
\* level, timestamp, logger_name and exception and leaves the buffer as it
\* was; exception is "" without exception info (cached text or not), the
\* cached exc_text with exception info and a cached text, and the freshly
\* formatted traceback of exc_info otherwise.
C17_RecordConversionInv ==
    item # <<>> =>
        /\ DOMAIN item = {"message", "level", "timestamp", "logger_name", "exception"}
        /\ record.exc_info = "" => item.exception = ""
        /\ (record.exc_info # "" /\ record.exc_text # "") =>
               item.exception = record.exc_text
        /\ (record.exc_info # "" /\ record.exc_text = "") =>
               /\ item.exception = formatException(record.exc_info)
               /\ item.exception \notin {"", record.exc_info}

C17_RecordConversion ==
    /\ []C17_RecordConversionInv
    /\ [][(\E rec \in RecordInputs : DictifyRecord(rec)) => buffer' = buffer]_vars

\* C17 witness: a record without exception info but with cached text was
\* converted while the buffer held entries; its exception is "".
C17_Witness ==
    /\ item # <<>>
    /\ record.exc_info = ""
    /\ record.exc_text # ""
    /\ item.exception = ""
    /\ Len(buffer) = capacity

====
